---- MODULE Spec2Model ----
(***************************************************************************)
(* Cryptix API service: the Flask request dispatcher with its five route   *)
(* handlers and two error handlers (src/Cryptix/api/app.py), and the       *)
(* shared rotating-file logger (src/Cryptix/api/logger.py).                *)
(*                                                                         *)
(* Two specifications:                                                     *)
(*   Spec        one request at a time through the dispatcher; the state   *)
(*               is the request being answered, its response, the handler  *)
(*               that ran and the log lines written while it was served.   *)
(*   SpecLogger  worker threads calling the shared logger concurrently,    *)
(*               with the file handler's lock, rollover and write as       *)
(*               separate steps.                                           *)
(*                                                                         *)
(* Framework behaviour the handlers rely on is modelled as Flask >= 2.1 /  *)
(* Werkzeug >= 2.1 and CPython 3.11 logging implement it.                  *)
(***************************************************************************)
EXTENDS Integers, Sequences, FiniteSets, TLC

VARIABLES
    debug,       \* app.debug: TRUE under app.run(debug=True), FALSE under a WSGI server
    request,     \* the request being answered
    response,    \* the response sent for it
    handler,     \* the view function or error handler that produced the response
    fault,       \* the exception that left the view function ("" when none did)
    emitted,     \* the lines written through the shared logger while serving it
    lock,        \* file handler's I/O lock: owning thread, or 0
    stream,      \* file handler's stream: "open" or "None"
    files,       \* files[0] is logs/api.log, files[i] is logs/api.log.i
    removed,     \* lines of the backups os.remove() deleted, oldest first
    pc,          \* each worker thread's position inside logger.info()
    cur,         \* each worker thread's LogRecord
    created,     \* number of LogRecords created so far
    written,     \* number of lines written to the file stream so far
    dropped,     \* records lost to handleError()
    console      \* number of lines written to the console sink

httpVars == <<debug, request, response, handler, fault, emitted>>
logVars == <<lock, stream, files, removed, pc, cur, created, written, dropped,
             console>>
vars == <<debug, request, response, handler, fault, emitted, lock, stream, files,
          removed, pc, cur, created, written, dropped, console>>

-----------------------------------------------------------------------------
(* Python values, as far as the handlers look at them: type, numeric       *)
(* content (an int's value, a bool's 0/1, a container's length) and string *)
(* content.                                                                *)

PyNone == [t |-> "NoneType", n |-> 0, s |-> ""]
PyStr(s) == [t |-> "str", n |-> Len(s), s |-> s]
PyInt(n) == [t |-> "int", n |-> n, s |-> ""]
PyList(n) == [t |-> "list", n |-> n, s |-> ""]
PyDict(n) == [t |-> "dict", n |-> n, s |-> ""]
Missing == [t |-> "missing", n |-> 0, s |-> ""]

\* bool(v): None, 0, "", [] and {} are falsy
Truthy(v) ==
    CASE v.t = "NoneType" -> FALSE
      [] v.t = "missing" -> FALSE
      [] v.t = "int" -> v.n # 0
      [] v.t = "str" -> v.s # ""
      [] OTHER -> v.n > 0

\* a parsed JSON document: its top-level value and, for an object, the value
\* under its "transaction" key
Doc(top, tr) == [top |-> top, transaction |-> tr]
NoDoc == Doc(Missing, Missing)
Placeholder == Doc(PyStr("Could not parse JSON body"), Missing)

-----------------------------------------------------------------------------
(* Requests.                                                               *)

Methods == {"GET", "HEAD", "POST", "PUT", "OPTIONS"}
Paths == {"/", "/health", "/log", "/fraud", "/recommendations", "/nonexistent-route"}

\* request bodies, as text
BodyTexts ==
    {"", "not json", "null", "[]", "[1]", "0", "\"abc\"", "{}",
     "{\"transaction\": null}", "{\"transaction\": {}}", "{\"transaction\": 0}",
     "{\"transaction\": {\"value\": 100, \"from\": \"A\", \"to\": \"B\"}}",
     "{\"event\": \"test_event\"}"}

\* query strings: ?userId=...&limit=..., Missing when the parameter is not given
UserIds == {Missing, PyStr(""), PyStr("u1")}
Limits == {Missing, PyStr("5"), PyStr("abc")}

\* the requests sent: every method on every path; the body and its content type
\* vary where a view function reads the body, the query string where one reads it
Requests ==
    {r \in [method : Methods, path : Paths, is_json : BOOLEAN, data : BodyTexts,
            userId : UserIds, limit : Limits] :
        /\ r.path \notin {"/log", "/fraud"} => r.is_json = FALSE /\ r.data = ""
        /\ r.path # "/recommendations" => r.userId = Missing /\ r.limit = Missing}

NoRequest ==
    [method |-> "", path |-> "", is_json |-> FALSE, data |-> "",
     userId |-> Missing, limit |-> Missing]

\* json.loads: the document a body text denotes; ok = FALSE is JSONDecodeError
json_loads(text) ==
    CASE text = "null" -> [ok |-> TRUE, doc |-> Doc(PyNone, Missing)]
      [] text = "[]" -> [ok |-> TRUE, doc |-> Doc(PyList(0), Missing)]
      [] text = "[1]" -> [ok |-> TRUE, doc |-> Doc(PyList(1), Missing)]
      [] text = "0" -> [ok |-> TRUE, doc |-> Doc(PyInt(0), Missing)]
      [] text = "\"abc\"" -> [ok |-> TRUE, doc |-> Doc(PyStr("abc"), Missing)]
      [] text = "{}" -> [ok |-> TRUE, doc |-> Doc(PyDict(0), Missing)]
      [] text = "{\"transaction\": null}" ->
            [ok |-> TRUE, doc |-> Doc(PyDict(1), PyNone)]
      [] text = "{\"transaction\": {}}" ->
            [ok |-> TRUE, doc |-> Doc(PyDict(1), PyDict(0))]
      [] text = "{\"transaction\": 0}" ->
            [ok |-> TRUE, doc |-> Doc(PyDict(1), PyInt(0))]
      [] text = "{\"transaction\": {\"value\": 100, \"from\": \"A\", \"to\": \"B\"}}" ->
            [ok |-> TRUE, doc |-> Doc(PyDict(1), PyDict(3))]
      [] text = "{\"event\": \"test_event\"}" ->
            [ok |-> TRUE, doc |-> Doc(PyDict(1), Missing)]
      [] OTHER -> [ok |-> FALSE, doc |-> NoDoc]

\* request.get_json(): 415 when the content type is not JSON, 400 when the body
\* does not parse, else the parsed document
get_json(r) ==
    IF ~r.is_json THEN [raised |-> "UnsupportedMediaType", value |-> NoDoc]
    ELSE IF ~json_loads(r.data).ok THEN [raised |-> "BadRequest", value |-> NoDoc]
    ELSE [raised |-> "", value |-> json_loads(r.data).doc]

\* data.get('transaction'): only a dict has .get
dict_get_transaction(data) ==
    IF data.top.t = "dict"
    THEN [raised |-> "",
          value |-> IF data.transaction = Missing THEN PyNone ELSE data.transaction]
    ELSE [raised |-> "AttributeError: '" \o data.top.t
                        \o "' object has no attribute 'get'",
          value |-> PyNone]

\* int(s) for type=int: ok = FALSE is ValueError
int_of(s) ==
    CASE s = "5" -> [ok |-> TRUE, value |-> 5]
      [] s = "0" -> [ok |-> TRUE, value |-> 0]
      [] OTHER -> [ok |-> FALSE, value |-> 0]

\* request.args.get(key): None when the parameter is missing
args_get(value) == IF value = Missing THEN PyNone ELSE value

\* request.args.get(key, default=d, type=int): MultiDict.get catches the
\* ValueError of a failed conversion and gives d
args_get_int(value, d) ==
    IF value = Missing THEN [raised |-> "", value |-> PyInt(d)]
    ELSE IF int_of(value.s).ok
    THEN [raised |-> "", value |-> PyInt(int_of(value.s).value)]
    ELSE [raised |-> "", value |-> PyInt(d)]

-----------------------------------------------------------------------------
(* Responses and log lines.                                                *)

NoAnalysis == [riskScore |-> 0, isFraudulent |-> FALSE]

\* a response: status, content type, the top-level keys of a JSON body and the
\* values under them; detail is what a non-JSON body tells about the failure
NoResponse ==
    [status |-> 0, mimetype |-> "", keys |-> {}, error |-> "", status_code |-> 0,
     detail |-> "", analysis |-> NoAnalysis, recommendations |-> <<>>,
     has_body |-> FALSE, body |-> NoDoc]

\* jsonify(obj) with the given top-level keys, and the status beside it
jsonify(keys, status) ==
    [NoResponse EXCEPT !.status = status, !.mimetype = "application/json",
                       !.keys = keys]

\* one call of the shared logger: level, the message's fixed text and the text
\* interpolated into it
LogLine(levelname, message, arg) ==
    [levelname |-> levelname, message |-> message, arg |-> arg]

\* what a view function does: the exception it raised ("" when it returned; http is
\* the status of an HTTPException, 0 for any other exception), the response it
\* returned and the lines it logged
Returned(rv, lines) == [raised |-> "", http |-> 0, rv |-> rv, lines |-> lines]
Raised(exc, http, lines) == [raised |-> exc, http |-> http, rv |-> NoResponse, lines |-> lines]

-----------------------------------------------------------------------------
(* View functions.                                                         *)

index(r) ==
    Returned(jsonify({"name", "version", "description", "endpoints"}, 200),
             <<LogLine("INFO", "API documentation accessed", "")>>)

health_check(r) ==
    Returned(jsonify({"status", "timestamp"}, 200),
             <<LogLine("INFO", "Health check endpoint accessed", "")>>)

\* a failed parse is passed on as None, as get_json(silent=True) would
log_request_body_silent(r) ==
    IF r.method = "POST"
    THEN [has_body |-> TRUE,
          body |-> IF get_json(r).raised = "" THEN get_json(r).value
                   ELSE Doc(PyNone, Missing)]
    ELSE [has_body |-> FALSE, body |-> NoDoc]

\* the body is captured for every method
log_request_body_any_method(r) ==
    [has_body |-> TRUE,
     body |-> IF get_json(r).raised = "" THEN get_json(r).value ELSE Placeholder]

\* request_details['body'] of log_request: set for POST only; any exception of
\* get_json() is replaced by the placeholder string
log_request_body(r) ==
    IF r.method = "POST"
    THEN [has_body |-> TRUE,
          body |-> IF get_json(r).raised = "" THEN get_json(r).value ELSE Placeholder]
    ELSE [has_body |-> FALSE, body |-> NoDoc]

log_request(r) ==
    LET details == log_request_body(r)
    IN  Returned([jsonify({"message", "request_details"}, 200) EXCEPT
                      !.has_body = details.has_body, !.body = details.body],
                 <<LogLine("INFO", "Request logged: ",
                           r.method \o " " \o r.path
                             \o (IF details.has_body THEN " body" ELSE ""))>>)

\* `if transaction is None` in place of `if not transaction`
transaction_missing_is_none(transaction) == transaction.t = "NoneType"

\* the validation of analyze_fraud
transaction_missing(transaction) == ~Truthy(transaction)

analyze_fraud(r) ==
    LET data == get_json(r)
        transaction == dict_get_transaction(data.value)
    IN  IF data.raised = "UnsupportedMediaType" THEN Raised(data.raised, 415, <<>>)
        ELSE IF data.raised = "BadRequest" THEN Raised(data.raised, 400, <<>>)
        ELSE IF transaction.raised # "" THEN Raised(transaction.raised, 0, <<>>)
        ELSE IF transaction_missing(transaction.value)
        THEN Returned([jsonify({"error"}, 400) EXCEPT
                           !.error = "Transaction data is required"], <<>>)
        ELSE Returned([jsonify({"analysis"}, 200) EXCEPT
                           !.analysis = [riskScore |-> 85, isFraudulent |-> TRUE]],
                      <<LogLine("INFO", "Fraud analysis completed", "")>>)

\* the info line is written before the validation
get_recommendations_logs_first(r) ==
    IF ~Truthy(args_get(r.userId))
    THEN Returned([jsonify({"error"}, 400) EXCEPT !.error = "User ID is required"],
                  <<LogLine("INFO", "Recommendations retrieved", "")>>)
    ELSE Returned([jsonify({"recommendations"}, 200) EXCEPT
                       !.recommendations =
                           <<[eventId |-> 1, eventName |-> "Concert A"],
                             [eventId |-> 2, eventName |-> "Festival B"]>>],
                  <<LogLine("INFO", "Recommendations retrieved", "")>>)

\* the validation of get_recommendations
user_id_missing(user_id) == ~Truthy(user_id)

get_recommendations(r) ==
    LET user_id == args_get(r.userId)
        limit == args_get_int(r.limit, 10)
    IN  IF limit.raised # "" THEN Raised(limit.raised, 0, <<>>)
        ELSE IF user_id_missing(user_id)
        THEN Returned([jsonify({"error"}, 400) EXCEPT !.error = "User ID is required"],
                      <<>>)
        ELSE Returned([jsonify({"recommendations"}, 200) EXCEPT
                           !.recommendations =
                               <<[eventId |-> 1, eventName |-> "Concert A"],
                                 [eventId |-> 2, eventName |-> "Festival B"]>>],
                      <<LogLine("INFO", "Recommendations retrieved", "")>>)

-----------------------------------------------------------------------------
(* Error handlers.                                                         *)

not_found_error(r) ==
    Returned([jsonify({"error", "status_code"}, 404) EXCEPT
                  !.error = "Resource not found", !.status_code = 404],
             <<LogLine("WARNING", "404 Error: ", r.path)>>)

\* error is the InternalServerError Flask wraps the fault in; str(error) is its
\* fixed description
internal_error(error) ==
    Returned([jsonify({"error", "status_code"}, 500) EXCEPT
                  !.error = "Internal server error", !.status_code = 500],
             <<LogLine("ERROR", "500 Error: ", error)>>)

-----------------------------------------------------------------------------
(* The dispatcher: Flask's URL map and exception handling around the view  *)
(* functions.                                                              *)

\* @app.route(rule, methods=...): Flask adds OPTIONS, Werkzeug adds HEAD to GET
Route(rule, methods, endpoint) ==
    [rule |-> rule, endpoint |-> endpoint,
     methods |-> methods \cup {"OPTIONS"}
                   \cup (IF "GET" \in methods THEN {"HEAD"} ELSE {})]

url_map ==
    {Route("/", {"GET"}, "index"),
     Route("/health", {"GET"}, "health_check"),
     Route("/log", {"GET", "POST"}, "log_request"),
     Route("/fraud", {"POST"}, "analyze_fraud"),
     Route("/recommendations", {"GET"}, "get_recommendations")}

\* the endpoint a request is routed to, or the routing exception
Match(r) ==
    LET rules == {u \in url_map : u.rule = r.path}
    IN  IF rules = {} THEN "NotFound"
        ELSE IF \A u \in rules : r.method \notin u.methods THEN "MethodNotAllowed"
        ELSE IF r.method = "OPTIONS" THEN "OPTIONS"
        ELSE (CHOOSE u \in rules : r.method \in u.methods).endpoint

\* the 404 handler is not registered
error_handler_spec_without_404 == {500}

\* status codes with a handler registered by @app.errorhandler
error_handler_spec == {404, 500}

\* werkzeug's own response for an HTTPException nobody handles: an HTML page
default_exception_response(exc, http) ==
    [NoResponse EXCEPT !.status = http, !.mimetype = "text/html", !.detail = exc]

\* the debugger's traceback page, sent when the exception is re-raised to the server
debugger_response(exc) ==
    [NoResponse EXCEPT !.status = 500, !.mimetype = "text/html", !.detail = exc]

InternalServerErrorText ==
    "500 Internal Server Error: The server encountered an internal error and was "
      \o "unable to complete your request."

\* PROPAGATE_EXCEPTIONS is unset, so an exception that is no HTTPException is
\* re-raised exactly when the app runs in debug mode
propagate_exceptions(dbg) == dbg

\* full_dispatch_request: the view function's outcome, turned into the response
Finalize(r, endpoint, out, dbg) ==
    IF out.raised = ""
    THEN [response |-> out.rv, handler |-> endpoint, fault |-> "",
          emitted |-> out.lines]
    ELSE IF out.http # 0
    THEN IF out.http = 404 /\ 404 \in error_handler_spec
         THEN [response |-> not_found_error(r).rv, handler |-> "not_found_error",
               fault |-> out.raised,
               emitted |-> out.lines \o not_found_error(r).lines]
         ELSE [response |-> default_exception_response(out.raised, out.http),
               handler |-> "HTTPException.get_response", fault |-> out.raised,
               emitted |-> out.lines]
    ELSE IF propagate_exceptions(dbg) \/ 500 \notin error_handler_spec
    THEN [response |-> debugger_response(out.raised), handler |-> "DebuggedApplication",
          fault |-> out.raised, emitted |-> out.lines]
    ELSE [response |-> internal_error(InternalServerErrorText).rv,
          handler |-> "internal_error", fault |-> out.raised,
          emitted |-> out.lines \o internal_error(InternalServerErrorText).lines]

\* the request r is answered
Answer(r, endpoint, out) ==
    LET done == Finalize(r, endpoint, out, debug)
    IN  /\ request' = r
        /\ response' = done.response
        /\ handler' = done.handler
        /\ fault' = done.fault
        /\ emitted' = done.emitted
        /\ UNCHANGED <<debug, logVars>>

Index ==
    \E r \in Requests :
        /\ Match(r) = "index"
        /\ Answer(r, "index", index(r))

HealthCheck ==
    \E r \in Requests :
        /\ Match(r) = "health_check"
        /\ Answer(r, "health_check", health_check(r))

LogRequest ==
    \E r \in Requests :
        /\ Match(r) = "log_request"
        /\ Answer(r, "log_request", log_request(r))

AnalyzeFraud ==
    \E r \in Requests :
        /\ Match(r) = "analyze_fraud"
        /\ Answer(r, "analyze_fraud", analyze_fraud(r))

GetRecommendations ==
    \E r \in Requests :
        /\ Match(r) = "get_recommendations"
        /\ Answer(r, "get_recommendations", get_recommendations(r))

\* no rule has the path: routing raises NotFound
NotFound ==
    \E r \in Requests :
        /\ Match(r) = "NotFound"
        /\ Answer(r, "", Raised("NotFound", 404, <<>>))

\* a rule has the path, none has the method: routing raises MethodNotAllowed
MethodNotAllowed ==
    \E r \in Requests :
        /\ Match(r) = "MethodNotAllowed"
        /\ Answer(r, "", Raised("MethodNotAllowed", 405, <<>>))

\* OPTIONS on a known path: Flask answers it itself, no view function runs
AutomaticOptions ==
    \E r \in Requests :
        /\ Match(r) = "OPTIONS"
        /\ Answer(r, "make_default_options_response",
                  Returned([NoResponse EXCEPT !.status = 200, !.mimetype = "text/html"],
                           <<>>))

-----------------------------------------------------------------------------
(* The shared logger: logging.getLogger('cryptix_api') at level INFO with a *)
(* console StreamHandler and a RotatingFileHandler on logs/api.log.         *)

NumThreads == 2
MaxLogCalls == 3

maxBytes == 10485760
backupCount == 5

Threads == 1 .. NumThreads

\* api.log, api.log.1 .. api.log.5, and one index more than the handler may use
FileIndexes == 0 .. backupCount + 1

\* logger.setLevel(logging.INFO)
LevelNo(levelname) ==
    CASE levelname = "DEBUG" -> 10
      [] levelname = "INFO" -> 20
      [] levelname = "WARNING" -> 30
      [] levelname = "ERROR" -> 40

isEnabledFor(levelname) == LevelNo(levelname) >= LevelNo("INFO")

\* the calls the workers make: level, and the formatted line's length in
\* characters and in encoded bytes, terminator included
LogCalls ==
    {[levelname |-> "DEBUG", chars |-> 6 * 1048576, bytes |-> 6 * 1048576],
     [levelname |-> "INFO", chars |-> 6 * 1048576, bytes |-> 6 * 1048576],
     [levelname |-> "ERROR", chars |-> 11 * 1048576, bytes |-> 11 * 1048576],
     [levelname |-> "WARNING", chars |-> 3 * 1048576, bytes |-> 6 * 1048576]}

NoRecord == [created |-> 0, levelname |-> "", chars |-> 0, bytes |-> 0]

NoFile == [exists |-> FALSE, lines |-> <<>>, size |-> 0]
EmptyFile == [exists |-> TRUE, lines |-> <<>>, size |-> 0]

\* Formatter('%(asctime)s - %(levelname)s - %(message)s') and the terminator
\* StreamHandler.emit appends; seq is the position of the write among all writes
Format(record, seq) ==
    [asctime |-> record.created, levelname |-> record.levelname, seq |-> seq,
     chars |-> record.chars, bytes |-> record.bytes, terminator |-> "\n"]

\* self._open() in mode 'a': the file is created when it is not there
Open(fs) == IF fs[0].exists THEN fs ELSE [fs EXCEPT ![0] = EmptyFile]

\* the record's own length is left out of the test
shouldRollover_ignores_record(pos, record) == pos >= maxBytes

\* RotatingFileHandler.shouldRollover: stream.tell() + len(msg) >= maxBytes
shouldRollover(pos, record) == pos + record.chars >= maxBytes

\* the first index of the renaming loop: range(backupCount - 1, 0, -1)
RotateStart == backupCount - 1

\* one turn of the loop: api.log.i becomes api.log.(i+1), which is removed first
RotateStep(st, i) ==
    IF st.files[i].exists
    THEN [files |-> [st.files EXCEPT ![i + 1] = st.files[i], ![i] = NoFile],
          removed |-> IF st.files[i + 1].exists
                      THEN st.removed \o st.files[i + 1].lines
                      ELSE st.removed]
    ELSE st

RECURSIVE RotateLoop(_, _)
RotateLoop(st, i) == IF i < 1 THEN st ELSE RotateLoop(RotateStep(st, i), i - 1)

\* the renames of doRollover: the loop, then api.log becomes api.log.1
Rotate(fs, rm) ==
    LET st == RotateLoop([files |-> fs, removed |-> rm], RotateStart)
        rm1 == IF st.files[1].exists THEN st.removed \o st.files[1].lines
               ELSE st.removed
    IN  IF backupCount > 0
        THEN [files |-> IF st.files[0].exists
                        THEN [st.files EXCEPT ![1] = st.files[0], ![0] = NoFile]
                        ELSE [st.files EXCEPT ![1] = NoFile],
              removed |-> rm1]
        ELSE [files |-> fs, removed |-> rm]

\* the handler is entered without waiting for its lock
CanAcquire_unlocked(t) == TRUE

\* Handler.acquire(): the handler's lock is free
CanAcquire(t) == lock = 0

\* logger.info/warning/error(msg): below INFO nothing happens; else a LogRecord is
\* made, the console handler writes it to stderr under its own lock, and the file
\* handler is called
LogCall(t) ==
    \E call \in LogCalls :
        /\ pc[t] = "idle"
        /\ created < MaxLogCalls
        /\ IF isEnabledFor(call.levelname)
           THEN /\ created' = created + 1
                /\ console' = console + 1
                /\ cur' = [cur EXCEPT ![t] =
                              [created |-> created + 1, levelname |-> call.levelname,
                               chars |-> call.chars, bytes |-> call.bytes]]
                /\ pc' = [pc EXCEPT ![t] = "acquire"]
           ELSE UNCHANGED <<created, console, cur, pc>>
        /\ UNCHANGED <<httpVars, lock, stream, files, removed, written, dropped>>

\* Handler.handle of the file handler: self.acquire()
Acquire(t) ==
    /\ pc[t] = "acquire"
    /\ CanAcquire(t)
    /\ lock' = t
    /\ pc' = [pc EXCEPT ![t] = "shouldRollover"]
    /\ UNCHANGED <<httpVars, stream, files, removed, cur, created, written, dropped,
                   console>>

\* RotatingFileHandler.emit: if self.shouldRollover(record); when it is False,
\* FileHandler.emit follows and finds the stream open or opens it
ShouldRollover(t) ==
    /\ pc[t] = "shouldRollover"
    /\ stream' = "open"
    /\ files' = IF stream = "None" THEN Open(files) ELSE files
    /\ pc' = [pc EXCEPT ![t] = IF shouldRollover(files'[0].size, cur[t])
                               THEN "doRollover" ELSE "write"]
    /\ UNCHANGED <<httpVars, lock, removed, cur, created, written, dropped, console>>

\* doRollover, first half: the stream is closed and the files are renamed
DoRolloverClose(t) ==
    /\ pc[t] = "doRollover"
    /\ stream' = "None"
    /\ files' = Rotate(files, removed).files
    /\ removed' = Rotate(files, removed).removed
    /\ pc' = [pc EXCEPT ![t] = "reopen"]
    /\ UNCHANGED <<httpVars, lock, cur, created, written, dropped, console>>

\* doRollover, second half: self.stream = self._open(); FileHandler.emit follows
DoRolloverOpen(t) ==
    /\ pc[t] = "reopen"
    /\ stream' = "open"
    /\ files' = Open(files)
    /\ pc' = [pc EXCEPT ![t] = "write"]
    /\ UNCHANGED <<httpVars, lock, removed, cur, created, written, dropped, console>>

\* StreamHandler.emit: stream.write(msg + self.terminator) in one call; a stream
\* that is gone raises, and handleError swallows the record
StreamWrite(t) ==
    /\ pc[t] = "write"
    /\ IF stream = "open" /\ files[0].exists
       THEN /\ written' = written + 1
            /\ files' = [files EXCEPT
                            ![0].lines = Append(@, Format(cur[t], written + 1)),
                            ![0].size = @ + cur[t].bytes]
            /\ UNCHANGED dropped
       ELSE /\ dropped' = dropped + 1
            /\ UNCHANGED <<written, files>>
    /\ pc' = [pc EXCEPT ![t] = "release"]
    /\ UNCHANGED <<httpVars, lock, stream, removed, cur, created, console>>

\* Handler.handle: finally self.release()
Release(t) ==
    /\ pc[t] = "release"
    /\ lock' = 0
    /\ pc' = [pc EXCEPT ![t] = "idle"]
    /\ cur' = [cur EXCEPT ![t] = NoRecord]
    /\ UNCHANGED <<httpVars, stream, files, removed, created, written, dropped,
                   console>>

-----------------------------------------------------------------------------
(* Specifications.                                                         *)

\* no request answered yet
InitHttp ==
    /\ request = NoRequest
    /\ response = NoResponse
    /\ handler = ""
    /\ fault = ""
    /\ emitted = <<>>

\* the files an earlier run of the service left in logs/ after writing p lines of
\* 6 MiB at level INFO: the newest in api.log, the one before it in api.log.1, ...
\* (their seq is 0, -1, ...: they precede every write of this run)
PreviousLine(i) ==
    [asctime |-> 0 - i, levelname |-> "INFO", seq |-> 0 - i,
     chars |-> 6 * 1048576, bytes |-> 6 * 1048576, terminator |-> "\n"]

PreviousFiles(p) ==
    [i \in FileIndexes |->
        IF i < p
        THEN [exists |-> TRUE, lines |-> <<PreviousLine(i)>>, size |-> 6 * 1048576]
        ELSE IF i = 0 THEN EmptyFile ELSE NoFile]

\* setup_logger() has run: logs/ holds what earlier runs left (nothing on the first
\* run) and logs/api.log is open for appending
InitLogger(p) ==
    /\ lock = 0
    /\ stream = "open"
    /\ files = PreviousFiles(p)
    /\ removed = <<>>
    /\ pc = [t \in Threads |-> "idle"]
    /\ cur = [t \in Threads |-> NoRecord]
    /\ created = 0
    /\ written = 0
    /\ dropped = 0
    /\ console = 0

\* the service is started by app.run(debug=True) or imported by a WSGI server
Init ==
    /\ debug \in BOOLEAN
    /\ InitHttp
    /\ InitLogger(0)

\* routing answers the request itself, or hands it to the view function matched
Next ==
    \/ NotFound
    \/ MethodNotAllowed
    \/ AutomaticOptions
    \/ Index
    \/ HealthCheck
    \/ LogRequest
    \/ AnalyzeFraud
    \/ GetRecommendations

Spec == Init /\ [][Next]_vars

\* the service is started again with the logs of its earlier runs in place
InitLog ==
    /\ debug = TRUE
    /\ InitHttp
    /\ \E p \in 0 .. backupCount + 1 : InitLogger(p)

NextLogger ==
    \E t \in Threads :
        \/ LogCall(t)
        \/ Acquire(t)
        \/ ShouldRollover(t)
        \/ DoRolloverClose(t)
        \/ DoRolloverOpen(t)
        \/ StreamWrite(t)
        \/ Release(t)

SpecLogger == InitLog /\ [][NextLogger]_vars

-----------------------------------------------------------------------------
(* Claims about the dispatcher, checked under Spec.  Each is a predicate on *)
(* the request answered last and what answering it produced.               *)

Views == {"index", "health_check", "log_request", "analyze_fraud", "get_recommendations"}

IsFraudPost == request.path = "/fraud" /\ request.method = "POST"
IsRecommendationsGet == request.path = "/recommendations" /\ request.method = "GET"
IsLogPost == request.path = "/log" /\ request.method = "POST"

\* the body of a POST /fraud arrived as a JSON object
FraudBodyIsObject ==
    /\ get_json(request).raised = ""
    /\ get_json(request).value.top.t = "dict"

\* the value under the object's `transaction` key is there and truthy
TransactionSupplied == Truthy(get_json(request).value.transaction)

IsTransactionRequired ==
    /\ response.status = 400
    /\ response.mimetype = "application/json"
    /\ response.keys = {"error"}
    /\ response.error = "Transaction data is required"

IsUserIdRequired ==
    /\ response.status = 400
    /\ response.mimetype = "application/json"
    /\ response.keys = {"error"}
    /\ response.error = "User ID is required"

IsAnalysis ==
    /\ response.status = 200
    /\ response.keys = {"analysis"}
    /\ response.analysis = [riskScore |-> 85, isFraudulent |-> TRUE]

IsRecommendations ==
    /\ response.status = 200
    /\ response.keys = {"recommendations"}
    /\ Len(response.recommendations) = 2

NoStubPayloadWith400 ==
    response.status = 400 =>
        /\ response.keys \cap {"analysis", "recommendations"} = {}
        /\ response.analysis = NoAnalysis
        /\ response.recommendations = <<>>

C2_UnparsableLogBody ==
    (IsLogPost /\ ~json_loads(request.data).ok) =>
        /\ handler = "log_request"
        /\ fault = ""
        /\ response.status = 200
        /\ response.has_body
        /\ response.body = Placeholder

C2_Witness ==
    /\ IsLogPost
    /\ request.is_json
    /\ request.data = "not json"
    /\ response.status = 200
    /\ response.body = Placeholder

\* C3 as stated: request_details of /log has a `body` key exactly for POST, and for
\* a POST whose body is well-formed JSON the value is the parsed body.
C3_LogBodyEcho_AsStated ==
    request.path = "/log" /\ handler = "log_request" =>
        /\ response.has_body <=> request.method = "POST"
        /\ (request.method = "POST" /\ json_loads(request.data).ok) =>
               response.body = json_loads(request.data).doc

\* C3, amended: request_details of /log has a `body` key exactly for POST, and for a
\* POST whose body is well-formed JSON sent with a JSON content type the value is
\* the parsed body.
C3_LogBodyEcho ==
    request.path = "/log" /\ handler = "log_request" =>
        /\ response.has_body <=> request.method = "POST"
        /\ (request.method = "POST" /\ request.is_json /\ json_loads(request.data).ok) =>
               response.body = json_loads(request.data).doc

C3_Witness ==
    /\ IsLogPost
    /\ request.is_json
    /\ request.data = "{\"event\": \"test_event\"}"
    /\ response.has_body
    /\ response.body = Doc(PyDict(1), Missing)

\* C4: a request whose path is none of the five routes is answered by the 404
\* handler: one WARNING line with the requested URL, status 404, body exactly
\* {error: "Resource not found", status_code: 404}; no view function runs.
C4_UnmatchedPath ==
    (request # NoRequest
       /\ request.path \notin {"/", "/health", "/log", "/fraud", "/recommendations"}) =>
        /\ handler = "not_found_error"
        /\ handler \notin Views
        /\ emitted = <<LogLine("WARNING", "404 Error: ", request.path)>>
        /\ response.status = 404
        /\ response.mimetype = "application/json"
        /\ response.keys = {"error", "status_code"}
        /\ response.error = "Resource not found"
        /\ response.status_code = 404

C4_Witness ==
    /\ request.path = "/nonexistent-route"
    /\ request.method = "GET"
    /\ response.status = 404
    /\ Len(emitted) = 1

\* C5: every request that is rejected or fails (status 400 or above) gets a JSON
\* object with an `error` key as its body.
C5_FailuresAreJsonErrors ==
    response.status >= 400 =>
        /\ response.mimetype = "application/json"
        /\ "error" \in response.keys

HTTPExceptions == {"NotFound", "MethodNotAllowed", "UnsupportedMediaType", "BadRequest"}

\* C6: every fault a view function does not catch is answered by the 500 handler:
\* one ERROR line "500 Error: <description>", status 500, body exactly
\* {error: "Internal server error", status_code: 500}, the same for every fault, so
\* that nothing of the fault reaches the caller.
C6_FaultsReach500Handler ==
    (fault # "" /\ fault \notin HTTPExceptions) =>
        /\ handler = "internal_error"
        /\ Len(emitted) = 1
        /\ emitted[1].levelname = "ERROR"
        /\ emitted[1].message = "500 Error: "
        /\ response.detail = ""
        /\ response =
               [jsonify({"error", "status_code"}, 500) EXCEPT
                    !.error = "Internal server error", !.status_code = 500]

\* the input of a POST /fraud or GET /recommendations is invalid or missing
InvalidFraudInput == IsFraudPost /\ ~(FraudBodyIsObject /\ TransactionSupplied)
InvalidRecommendationsInput == IsRecommendationsGet /\ ~Truthy(args_get(request.userId))

\* C9: invalid or missing input of POST /fraud and GET /recommendations is answered
\* by the view function itself with its 400 validation error, and no exception leaves
\* the view function (a non-integer `limit` raises nothing either).
C9_InvalidInputHandledLocally ==
    /\ InvalidFraudInput =>
           handler = "analyze_fraud" /\ fault = "" /\ IsTransactionRequired
    /\ InvalidRecommendationsInput =>
           handler = "get_recommendations" /\ fault = "" /\ IsUserIdRequired
    /\ (IsRecommendationsGet /\ request.limit = PyStr("abc")) =>
           handler = "get_recommendations" /\ fault = ""

\* C10: a request a view function answers with 200 wrote exactly one line, at level
\* INFO, through the shared logger; one answered with a 400 validation error wrote
\* none.
C10_OneInfoLinePerSuccess ==
    /\ (handler \in Views /\ response.status = 200) =>
           Len(emitted) = 1 /\ emitted[1].levelname = "INFO"
    /\ (handler \in Views /\ response.status = 400) => emitted = <<>>

\* a fraud analysis succeeded and wrote its one line
C10_Witness ==
    /\ handler = "analyze_fraud"
    /\ response.status = 200
    /\ emitted = <<LogLine("INFO", "Fraud analysis completed", "")>>

-----------------------------------------------------------------------------
(* Claims about the shared logger, checked under SpecLogger.               *)

\* the lines of a file, as a set (their seq tells them apart)
LinesOf(lines) == {lines[k] : k \in 1 .. Len(lines)}

\* what is in the file sink: api.log and its backups
SinkLines == UNION {LinesOf(files[i].lines) : i \in FileIndexes}

\* what this run wrote and the sink holds, or held until the backup was removed
WrittenLines == {l \in SinkLines \cup LinesOf(removed) : l.seq >= 1}

\* a complete 'timestamp - level - message' record, ended by the terminator
WellFormed(l) ==
    /\ l.asctime \in 1 .. created
    /\ l.levelname \in {"INFO", "WARNING", "ERROR"}
    /\ l.chars > 0
    /\ l.terminator = "\n"

Quiescent == \A t \in Threads : pc[t] = "idle"

\* C7: once the N calls at level INFO or above that the workers issued concurrently
\* have returned, the file sink has received exactly N lines, one for each call and
\* each complete: none dropped, none twice (the lines of a backup the rotation has
\* deleted since are counted as received).
C7_NoLostOrTornLines ==
    /\ dropped = 0
    /\ \A l \in WrittenLines : WellFormed(l)
    /\ Quiescent =>
           /\ Cardinality(WrittenLines) = created
           /\ {l.asctime : l \in WrittenLines} = 1 .. created
           /\ written = created
           /\ (removed = <<>> =>
                   Cardinality({l \in SinkLines : l.seq >= 1}) = created)

\* two calls were in flight together, the one made first was written second, and
\* both lines are in the sink
C7_Witness ==
    /\ Quiescent
    /\ created >= 2
    /\ removed = <<>>
    /\ \E l \in SinkLines : l.seq >= 1 /\ l.asctime > l.seq
    /\ Cardinality({l \in SinkLines : l.seq >= 1}) = created

\* no backup beyond api.log.5 exists, and whatever was deleted is older than
\* everything kept
BackupsRetained ==
    /\ \A i \in FileIndexes : i > backupCount => ~files[i].exists
    /\ \A r \in LinesOf(removed) : \A l \in SinkLines : r.seq < l.seq

\* C8 as stated: the active file never exceeds maxBytes, at most backupCount backups
\* exist, and a rollover that would make one more discards the oldest.
C8_RotationPolicy_AsStated ==
    /\ files[0].size <= maxBytes
    /\ BackupsRetained

\* C8, amended: the active file stays below maxBytes as long as every record in it
\* is shorter than maxBytes and encodes to as many bytes as it has characters; at
\* most backupCount backups exist, and a rollover that would make one more discards
\* the oldest.
C8_RotationPolicy ==
    /\ (\A l \in LinesOf(files[0].lines) : l.chars < maxBytes /\ l.bytes = l.chars) =>
           files[0].size < maxBytes
    /\ BackupsRetained

\* a sixth rollover has deleted the oldest backup, five backups are kept, and the
\* active file holds a record of this run
C8_Witness ==
    /\ removed # <<>>
    /\ \A i \in 1 .. backupCount : files[i].exists
    /\ \E l \in LinesOf(files[0].lines) :
           l.seq >= 1 /\ l.chars < maxBytes /\ l.bytes = l.chars

====
